---------------------------- MODULE Spec2Model ----------------------------
(***************************************************************************)
(* Model of the leo task-graph library (src/leo.go).                       *)
(*                                                                         *)
(*   Graph     : named nodes, children/parents edge lists, cycle-rejecting *)
(*               edge insertion (Add, Precede, Succeed, hasCycle).         *)
(*   Executor  : NewExecutor recomputes parents; Execute runs the graph    *)
(*               with one goroutine per ready node.                        *)
(*                                                                         *)
(* A *Node is identified with its name (names are unique map keys and      *)
(* nodes are never deleted).  Go map iteration order is unspecified, so    *)
(* every `range` over a map takes its visiting order as an input.          *)
(***************************************************************************)
EXTENDS Integers, Sequences, FiniteSets, Bags, TLC

\* ------------------------------------------------------------------ bounds

\* Number of accepted edges after which the caller stops declaring edges.
MaxEdges == 3

\* The node names the caller uses while building a graph.
Names == {"A", "B", "C"}

\* A TaskFunc is identified with what it returns: nil or an error.
TaskFuncs == {"ok", "fail"}

ErrNil == "nil"

ErrNodeNotFound == "one or both nodes do not exist"

ErrCycle == "adding this edge would create a cycle"

\* ------------------------------------------------------------------ state

VARIABLES
    graph,      \* the *Graph: [nodes: name -> Node]
    lastCall,   \* the last Graph/NewExecutor call and the error it returned
    budget,     \* number of Execute calls the caller still makes
    mainpc,     \* the caller: "idle", or "select" while blocked inside Execute
    inDegree,   \* per Execute call: the inDegree map
    ready,      \* per Execute call: the buffered ready channel
    errors,     \* per Execute call: the errors channel (buffer of 1)
    finished,   \* per Execute call: whether the finished channel is closed
    wg,         \* per Execute call: the WaitGroup counter
    senders,    \* per Execute call: nodes whose `ready <- n` goroutine is pending
    units,      \* bag of task goroutines: [run, n, pc, i, tmp]
    result,     \* per Execute call: "pending", "nil", or the failing node's name
    fatal,      \* the Go runtime has thrown (concurrent map access)
    invoked,    \* per Execute call and node: number of times n.task() was called
    succeeded,  \* per Execute call and node: number of calls that returned nil
    failed,     \* per Execute call and node: number of calls that returned an error
    recorded,   \* per Execute call: nodes whose error entered the errors channel
    dropped,    \* per Execute call: nodes whose error took the default branch
    dispatcher  \* per Execute call: the goroutine ranging over ready, "range" or "exited"

graphVars == <<graph, lastCall>>

execVars == <<budget, mainpc, inDegree, ready, errors, finished, wg, senders,
              units, result, fatal, invoked, succeeded, failed, recorded, dropped,
              dispatcher>>

vars == <<graph, lastCall, budget, mainpc, inDegree, ready, errors, finished, wg,
          senders, units, result, fatal, invoked, succeeded, failed, recorded, dropped,
          dispatcher>>

\* ------------------------------------------------------------- sequences

\* All orders in which a `range` may visit the set S.
Orders(S) ==
    {s \in [1..Cardinality(S) -> S] : \A i, j \in 1..Cardinality(S) : s[i] = s[j] => i = j}

\* s[:len(s)-1]
DropLast(s) == SubSeq(s, 1, Len(s) - 1)

\* ------------------------------------------------------------------ Graph

NewNode(name, task) ==
    [task |-> task, children |-> <<>>, parents |-> <<>>, name |-> name]

\* The startNodes field is appended to by Add and never read; it is left out.
TaskGraph == [nodes |-> [n \in {} |-> NewNode(n, "ok")]]

Registered(g) == DOMAIN g.nodes

\* Mutant of Add: the node is created anew even when the name exists.
AddOverwrite(g, name, task) ==
    [nodes |-> [n \in Registered(g) \cup {name} |->
                    IF n = name THEN NewNode(name, task) ELSE g.nodes[n]]]

Add(g, name, task) ==
    IF name \notin Registered(g)
    THEN [nodes |-> [n \in Registered(g) \cup {name} |->
                        IF n = name THEN NewNode(name, task) ELSE g.nodes[n]]]
    ELSE g

RECURSIVE dfsCheckCycle(_, _, _, _)
RECURSIVE dfsChildren(_, _, _, _, _)

\* The loop over node.children from index i on; ret is TRUE when the loop
\* returned true, FALSE when it ran to its end.
dfsChildren(g, node, i, visited, recStack) ==
    IF i > Len(g.nodes[node].children)
    THEN [ret |-> FALSE, visited |-> visited, recStack |-> recStack]
    ELSE LET child == g.nodes[node].children[i] IN
         IF child \notin visited
         THEN LET r == dfsCheckCycle(g, child, visited, recStack) IN
              IF r.ret
              THEN r
              ELSE IF child \in r.recStack
                   THEN [ret |-> TRUE, visited |-> r.visited, recStack |-> r.recStack]
                   ELSE dfsChildren(g, node, i + 1, r.visited, r.recStack)
         ELSE IF child \in recStack
              THEN [ret |-> TRUE, visited |-> visited, recStack |-> recStack]
              ELSE dfsChildren(g, node, i + 1, visited, recStack)

\* Mutant of dfsCheckCycle: the node stays on the recursion stack on return.
dfsCheckCycleKeepStack(g, node, visited, recStack) ==
    IF node \notin visited
    THEN dfsChildren(g, node, 1, visited \cup {node}, recStack \cup {node})
    ELSE [ret |-> FALSE, visited |-> visited, recStack |-> recStack]

dfsCheckCycle(g, node, visited, recStack) ==
    IF node \notin visited
    THEN LET r == dfsChildren(g, node, 1, visited \cup {node}, recStack \cup {node}) IN
         IF r.ret
         THEN r
         ELSE [ret |-> FALSE, visited |-> r.visited, recStack |-> r.recStack \ {node}]
    ELSE [ret |-> FALSE, visited |-> visited, recStack |-> recStack \ {node}]

RECURSIVE hasCycleFrom(_, _, _, _, _)
\* The loop of hasCycle over g.nodes, visited in the given order, from index i.
hasCycleFrom(g, order, i, visited, recStack) ==
    IF i > Len(order)
    THEN FALSE
    ELSE IF order[i] \notin visited
         THEN LET r == dfsCheckCycle(g, order[i], visited, recStack) IN
              IF r.ret THEN TRUE
              ELSE hasCycleFrom(g, order, i + 1, r.visited, r.recStack)
         ELSE hasCycleFrom(g, order, i + 1, visited, recStack)

\* Mutant of hasCycle: the search starts from the first node visited only.
hasCycleFirstNodeOnly(g, order) ==
    order # <<>> /\ dfsCheckCycle(g, order[1], {}, {}).ret

hasCycle(g, order) == hasCycleFrom(g, order, 1, {}, {})

AppendChild(g, from, to) ==
    [g EXCEPT !.nodes[from].children = Append(@, to)]

AppendParent(g, from, to) ==
    [g EXCEPT !.nodes[to].parents = Append(@, from)]

\* Mutant of Rollback: the tentative entry stays in toNode.parents.
RollbackChildrenOnly(g, from, to) ==
    [g EXCEPT !.nodes[from].children = DropLast(@)]

\* Removal of the tentative edge.
Rollback(g, from, to) ==
    LET g1 == [g EXCEPT !.nodes[from].children = DropLast(@)]
    IN  [g1 EXCEPT !.nodes[to].parents = DropLast(@)]

\* Mutant of Precede: a call that names a missing node is ignored silently.
PrecedeIgnoreMissing(g, from, to, order) ==
    IF from \notin Registered(g) \/ to \notin Registered(g)
    THEN [graph |-> g, err |-> ErrNil]
    ELSE LET tentative == AppendParent(AppendChild(g, from, to), from, to) IN
         IF hasCycle(tentative, order)
         THEN [graph |-> Rollback(tentative, from, to), err |-> ErrCycle]
         ELSE [graph |-> tentative, err |-> ErrNil]

\* Precede(from, to); order is the order in which hasCycle ranges over g.nodes.
Precede(g, from, to, order) ==
    IF from \notin Registered(g) \/ to \notin Registered(g)
    THEN [graph |-> g, err |-> ErrNodeNotFound]
    ELSE LET tentative == AppendParent(AppendChild(g, from, to), from, to) IN
         IF hasCycle(tentative, order)
         THEN [graph |-> Rollback(tentative, from, to), err |-> ErrCycle]
         ELSE [graph |-> tentative, err |-> ErrNil]

\* Mutant of Succeed: the names are passed on without being swapped.
SucceedSameDirection(g, from, to, order) == Precede(g, from, to, order)

Succeed(g, from, to, order) == Precede(g, to, from, order)

\* ----------------------------------------------------------- NewExecutor

\* parentCounts[child]: the number of children entries that name child.
parentCounts(g, child) ==
    Cardinality({e \in UNION {{n} \X (1..Len(g.nodes[n].children)) : n \in Registered(g)} :
                    g.nodes[e[1]].children[e[2]] = child})

\* Mutant of ResetParents: the parents slices are not emptied.
ResetParentsNone(g) == g

\* node.parents = make([]*Node, 0, count) for every key of parentCounts.
ResetParents(g) ==
    [g EXCEPT !.nodes = [n \in Registered(g) |->
        IF parentCounts(g, n) > 0 THEN [g.nodes[n] EXCEPT !.parents = <<>>]
        ELSE g.nodes[n]]]

RECURSIVE FillChildren(_, _, _)
\* for _, child := range node.children { child.parents = append(child.parents, node) }
FillChildren(g, node, i) ==
    IF i > Len(g.nodes[node].children)
    THEN g
    ELSE FillChildren(AppendParent(g, node, g.nodes[node].children[i]), node, i + 1)

RECURSIVE FillParents(_, _, _)
FillParents(g, order, i) ==
    IF i > Len(order)
    THEN g
    ELSE FillParents(FillChildren(g, order[i], 1), order, i + 1)

\* NewExecutor(graph); order is the order of the filling range over graph.nodes.
NewExecutor(g, order) == FillParents(ResetParents(g), order, 1)

\* ------------------------------------------------- graph construction API

NumEdges(g) ==
    LET RECURSIVE Sum(_)
        Sum(S) == IF S = {} THEN 0
                  ELSE LET n == CHOOSE x \in S : TRUE
                       IN  Len(g.nodes[n].children) + Sum(S \ {n})
    IN  Sum(Registered(g))

\* No Execute call has been made.
NoRuns ==
    /\ mainpc = "idle"
    /\ inDegree = <<>>
    /\ ready = <<>>
    /\ errors = <<>>
    /\ finished = <<>>
    /\ wg = <<>>
    /\ senders = <<>>
    /\ units = EmptyBag
    /\ result = <<>>
    /\ fatal = FALSE
    /\ invoked = <<>>
    /\ succeeded = <<>>
    /\ failed = <<>>
    /\ recorded = <<>>
    /\ dropped = <<>>
    /\ dispatcher = <<>>

Init ==
    /\ graph = TaskGraph
    /\ lastCall = [op |-> "TaskGraph", err |-> ErrNil]
    /\ budget = 0
    /\ NoRuns

CallAdd ==
    \E name \in Names, task \in TaskFuncs :
        /\ graph' = Add(graph, name, task)
        /\ lastCall' = [op |-> "Add", err |-> ErrNil]
        /\ UNCHANGED execVars

CallPrecede ==
    /\ NumEdges(graph) < MaxEdges
    /\ \E from \in Names, to \in Names, order \in Orders(Registered(graph)) :
        LET r == Precede(graph, from, to, order) IN
        /\ graph' = r.graph
        /\ lastCall' = [op |-> "Precede", err |-> r.err]
        /\ UNCHANGED execVars

CallSucceed ==
    /\ NumEdges(graph) < MaxEdges
    /\ \E from \in Names, to \in Names, order \in Orders(Registered(graph)) :
        LET r == Succeed(graph, from, to, order) IN
        /\ graph' = r.graph
        /\ lastCall' = [op |-> "Succeed", err |-> r.err]
        /\ UNCHANGED execVars

CallNewExecutor ==
    \E order \in Orders(Registered(graph)) :
        /\ graph' = NewExecutor(graph, order)
        /\ lastCall' = [op |-> "NewExecutor", err |-> ErrNil]
        /\ UNCHANGED execVars

Next == CallAdd \/ CallPrecede \/ CallSucceed \/ CallNewExecutor

Spec == Init /\ [][Next]_vars

\* ------------------------------------------------------------- programs

\* Largest number of failing tasks in a program.
MaxFail == 2

\* A program is the node names in Add order and the Precede ("P") / Succeed
\* ("S") calls in call order.
ThreeNodeCalls == << <<"P", "A", "B">>, <<"P", "A", "C">>, <<"S", "C", "B">> >>

RECURSIVE Pick(_, _, _)
\* The calls of s at the positions in S, in order, from position i on.
Pick(s, S, i) ==
    IF i > Len(s) THEN <<>>
    ELSE IF i \in S THEN <<s[i]>> \o Pick(s, S, i + 1)
         ELSE Pick(s, S, i + 1)

\* Every graph over three nodes without parallel edges (up to renaming).
ThreeNodePrograms ==
    {[nodes |-> <<"A", "B", "C">>, calls |-> Pick(ThreeNodeCalls, S, 1)] :
        S \in SUBSET (1..Len(ThreeNodeCalls))}

\* The programs whose Execute is explored: the empty graph, one and two
\* nodes, a repeated edge, the three-node graphs (among them the chain of
\* TestExecutorExecute), the diamond of TestDAGExecution and a five-node
\* graph whose join node C has a sibling D under the common child E.
Programs ==
    ThreeNodePrograms \cup
    { [nodes |-> <<>>, calls |-> <<>>],
      [nodes |-> <<"A">>, calls |-> <<>>],
      [nodes |-> <<"A", "B">>, calls |-> <<>>],
      [nodes |-> <<"A", "B">>, calls |-> << <<"P", "A", "B">>, <<"P", "A", "B">> >>],
      [nodes |-> <<"A", "B", "C", "D">>,
       calls |-> << <<"P", "A", "B">>, <<"P", "A", "C">>,
                    <<"S", "D", "B">>, <<"S", "D", "C">> >>],
      [nodes |-> <<"A", "B", "C", "D", "E">>,
       calls |-> << <<"P", "A", "C">>, <<"P", "B", "C">>,
                    <<"P", "C", "E">>, <<"P", "D", "E">> >>] }

RECURSIVE AddAll(_, _, _, _)
AddAll(g, names, fails, i) ==
    IF i > Len(names)
    THEN g
    ELSE AddAll(Add(g, names[i], IF names[i] \in fails THEN "fail" ELSE "ok"),
                names, fails, i + 1)

RECURSIVE CallAll(_, _, _, _)
CallAll(g, calls, order, i) ==
    IF i > Len(calls)
    THEN g
    ELSE LET c == calls[i]
             r == IF c[1] = "P" THEN Precede(g, c[2], c[3], order)
                                ELSE Succeed(g, c[2], c[3], order)
         IN  CallAll(r.graph, calls, order, i + 1)

\* The graph a program hands to Execute: TaskGraph, its Adds, its Precede and
\* Succeed calls, NewExecutor.
Built(prog, fails, order) ==
    NewExecutor(CallAll(AddAll(TaskGraph, prog.nodes, fails, 1), prog.calls, order, 1),
                order)

Range(s) == {s[i] : i \in 1..Len(s)}

ExecInit ==
    /\ \E prog \in Programs :
       \E fails \in SUBSET Range(prog.nodes) :
       \E order \in Orders(Range(prog.nodes)) :
            /\ Cardinality(fails) <= MaxFail
            /\ graph = Built(prog, fails, order)
    /\ lastCall = [op |-> "NewExecutor", err |-> ErrNil]
    /\ budget = 1
    /\ NoRuns

\* --------------------------------------------------------------- Execute

Nodes == Registered(graph)

Children(n) == graph.nodes[n].children

Parents(n) == graph.nodes[n].parents

\* The Execute call in progress or last made.
cur == Len(result)

Runs == 1..Len(result)

\* cap(ready) == len(e.graph.nodes)
ReadyCap == Cardinality(Nodes)

\* cap(errors)
ErrorsCap == 1

Unit(r, n) == [run |-> r, n |-> n, pc |-> "start", i |-> 0, tmp |-> 0]

Replace(u, v) == (units (-) SetToBag({u})) (+) SetToBag({v})

\* The child the unit's loop is at.
Child(u) == Children(u.n)[u.i]

\* The loop over n.children moves to its next child, or the goroutine reaches
\* its deferred wg.Done().
NextChild(u) ==
    IF u.i < Len(Children(u.n))
    THEN [u EXCEPT !.pc = "load", !.i = u.i + 1, !.tmp = 0]
    ELSE [u EXCEPT !.pc = "done", !.i = 0, !.tmp = 0]

\* The outcome of n.task().
TaskFails(n) == graph.nodes[n].task = "fail"

\* Mutant of InitialInDegree: a node waits for one of its parents only.
InitialInDegreeAnyParent(n) == IF Len(Parents(n)) > 0 THEN 1 ELSE 0

\* inDegree[node] = len(node.parents)
InitialInDegree(n) == Len(Parents(n))

\* Execute up to its select: the maps and channels of the call, the loop
\* that sets inDegree and starts a sending goroutine per node without
\* parents, and the two go statements (waiter and dispatcher).  The loop is
\* one step: until the dispatcher is started after it, no other goroutine
\* reads inDegree or receives from ready; the sending goroutines it starts
\* are steps of their own (SenderSend).
ExecuteCall ==
    /\ ~fatal
    /\ mainpc = "idle"
    /\ budget > 0
    /\ budget' = budget - 1
    /\ mainpc' = "select"
    /\ inDegree' = Append(inDegree, [n \in Nodes |-> InitialInDegree(n)])
    /\ senders' = Append(senders, {n \in Nodes : InitialInDegree(n) = 0})
    /\ wg' = Append(wg, Cardinality({n \in Nodes : InitialInDegree(n) = 0}))
    /\ ready' = Append(ready, <<>>)
    /\ errors' = Append(errors, <<>>)
    /\ finished' = Append(finished, FALSE)
    /\ result' = Append(result, "pending")
    /\ invoked' = Append(invoked, [n \in Nodes |-> 0])
    /\ succeeded' = Append(succeeded, [n \in Nodes |-> 0])
    /\ failed' = Append(failed, [n \in Nodes |-> 0])
    /\ recorded' = Append(recorded, <<>>)
    /\ dropped' = Append(dropped, {})
    /\ dispatcher' = Append(dispatcher, "range")
    /\ UNCHANGED <<graph, lastCall, units, fatal>>

\* go func(n *Node) { ready <- n }(node)
SenderSend ==
    /\ ~fatal
    /\ \E r \in Runs : \E n \in senders[r] :
        /\ Len(ready[r]) < ReadyCap
        /\ ready' = [ready EXCEPT ![r] = Append(@, n)]
        /\ senders' = [senders EXCEPT ![r] = @ \ {n}]
    /\ UNCHANGED <<graph, lastCall, dispatcher, budget, mainpc, inDegree, errors, finished, wg,
                   units, result, fatal, invoked, succeeded, failed, recorded, dropped>>

\* wg.Wait(); close(finished)
WaiterClose ==
    /\ ~fatal
    /\ \E r \in Runs :
        /\ wg[r] = 0
        /\ ~finished[r]
        /\ finished' = [finished EXCEPT ![r] = TRUE]
    /\ UNCHANGED <<graph, lastCall, dispatcher, budget, mainpc, inDegree, ready, errors, wg, senders,
                   units, result, fatal, invoked, succeeded, failed, recorded, dropped>>

\* Mutant of ReadyClosed: ready is closed together with finished.
ReadyClosedWithFinished(r) == finished[r]

\* Whether the ready channel of call r has been closed: Execute has no
\* close(ready).
ReadyClosed(r) == FALSE

\* One step of the dispatcher's `for node := range ready` for call r: the node
\* at the head of ready is received and a goroutine is started for it; on an
\* empty channel the loop blocks, and ends only if the channel is closed.
DispatchOf(r) ==
    /\ ~fatal
    /\ dispatcher[r] = "range"
    /\ IF ready[r] # <<>>
       THEN /\ units' = units (+) SetToBag({Unit(r, Head(ready[r]))})
            /\ ready' = [ready EXCEPT ![r] = Tail(@)]
            /\ UNCHANGED dispatcher
       ELSE /\ ReadyClosed(r)
            /\ dispatcher' = [dispatcher EXCEPT ![r] = "exited"]
            /\ UNCHANGED <<units, ready>>
    /\ UNCHANGED <<graph, lastCall, budget, mainpc, inDegree, errors, finished, wg,
                   senders, result, fatal, invoked, succeeded, failed, recorded, dropped>>

\* for node := range ready { go func(n *Node) {...}(node) }
Dispatch == \E r \in Runs : DispatchOf(r)

\* Mutant of TaskStartOf: a task starts only when no task of the call runs.
TaskStartOneAtATime(u) ==
    /\ ~fatal
    /\ u.pc = "start"
    /\ \A v \in BagToSet(units) : v.run = u.run => v.pc # "running"
    /\ units' = Replace(u, [u EXCEPT !.pc = "running"])
    /\ invoked' = [invoked EXCEPT ![u.run][u.n] = @ + 1]
    /\ UNCHANGED <<graph, lastCall, dispatcher, budget, mainpc, inDegree, ready, errors, finished,
                   wg, senders, result, fatal, succeeded, failed, recorded, dropped>>

\* The goroutine u calls n.task().
TaskStartOf(u) ==
    /\ ~fatal
    /\ u.pc = "start"
    /\ units' = Replace(u, [u EXCEPT !.pc = "running"])
    /\ invoked' = [invoked EXCEPT ![u.run][u.n] = @ + 1]
    /\ UNCHANGED <<graph, lastCall, dispatcher, budget, mainpc, inDegree, ready, errors, finished,
                   wg, senders, result, fatal, succeeded, failed, recorded, dropped>>

\* n.task() is called.
TaskStart == \E u \in BagToSet(units) : TaskStartOf(u)

\* n.task() returns.
TaskReturn ==
    /\ ~fatal
    /\ \E u \in BagToSet(units) :
        /\ u.pc = "running"
        /\ IF TaskFails(u.n)
           THEN /\ units' = Replace(u, [u EXCEPT !.pc = "report"])
                /\ failed' = [failed EXCEPT ![u.run][u.n] = @ + 1]
                /\ UNCHANGED succeeded
           ELSE /\ units' = Replace(u, NextChild(u))
                /\ succeeded' = [succeeded EXCEPT ![u.run][u.n] = @ + 1]
                /\ UNCHANGED failed
    /\ UNCHANGED <<graph, lastCall, dispatcher, budget, mainpc, inDegree, ready, errors, finished,
                   wg, senders, result, fatal, invoked, recorded, dropped>>

\* Mutant of ErrorsSend: a failure arriving at a full channel replaces the
\* buffered one.
ErrorsSendOverwrite(q, n) ==
    IF Len(q) < ErrorsCap THEN Append(q, n) ELSE <<n>>

\* The errors channel after select { case errors <- err: default: }.
ErrorsSend(q, n) ==
    IF Len(q) < ErrorsCap THEN Append(q, n) ELSE q

\* select { case errors <- fmt.Errorf(...): default: }; return
ReportError ==
    /\ ~fatal
    /\ \E u \in BagToSet(units) :
        /\ u.pc = "report"
        /\ units' = Replace(u, [u EXCEPT !.pc = "done"])
        /\ errors' = [errors EXCEPT ![u.run] = ErrorsSend(@, u.n)]
        /\ IF Len(errors[u.run]) < ErrorsCap
           THEN /\ recorded' = [recorded EXCEPT ![u.run] = Append(@, u.n)]
                /\ UNCHANGED dropped
           ELSE /\ dropped' = [dropped EXCEPT ![u.run] = @ \cup {u.n}]
                /\ UNCHANGED recorded
    /\ UNCHANGED <<graph, lastCall, dispatcher, budget, mainpc, inDegree, ready, finished, wg,
                   senders, result, fatal, invoked, succeeded, failed>>

\* inDegree[child]--, its read of the map entry.
DecLoad ==
    /\ ~fatal
    /\ \E u \in BagToSet(units) :
        /\ u.pc = "load"
        /\ units' = Replace(u, [u EXCEPT !.pc = "store", !.tmp = inDegree[u.run][Child(u)]])
    /\ UNCHANGED <<graph, lastCall, dispatcher, budget, mainpc, inDegree, ready, errors, finished, wg,
                   senders, result, fatal, invoked, succeeded, failed, recorded, dropped>>

\* inDegree[child]--, its write of the decremented value.
DecStore ==
    /\ ~fatal
    /\ \E u \in BagToSet(units) :
        /\ u.pc = "store"
        /\ inDegree' = [inDegree EXCEPT ![u.run][Child(u)] = u.tmp - 1]
        /\ units' = Replace(u, [u EXCEPT !.pc = "test", !.tmp = 0])
    /\ UNCHANGED <<graph, lastCall, dispatcher, budget, mainpc, ready, errors, finished, wg,
                   senders, result, fatal, invoked, succeeded, failed, recorded, dropped>>

\* Mutant of TestZero: the child is sent without being added to the WaitGroup.
TestZeroNoAdd ==
    /\ ~fatal
    /\ \E u \in BagToSet(units) :
        /\ u.pc = "test"
        /\ IF inDegree[u.run][Child(u)] = 0
           THEN units' = Replace(u, [u EXCEPT !.pc = "send"])
           ELSE units' = Replace(u, NextChild(u))
    /\ UNCHANGED <<graph, lastCall, dispatcher, budget, mainpc, inDegree, ready, errors, finished, wg,
                   senders, result, fatal, invoked, succeeded, failed, recorded, dropped>>

\* if inDegree[child] == 0 { wg.Add(1) ...
TestZero ==
    /\ ~fatal
    /\ \E u \in BagToSet(units) :
        /\ u.pc = "test"
        /\ IF inDegree[u.run][Child(u)] = 0
           THEN /\ wg' = [wg EXCEPT ![u.run] = @ + 1]
                /\ units' = Replace(u, [u EXCEPT !.pc = "send"])
           ELSE /\ units' = Replace(u, NextChild(u))
                /\ UNCHANGED wg
    /\ UNCHANGED <<graph, lastCall, dispatcher, budget, mainpc, inDegree, ready, errors, finished,
                   senders, result, fatal, invoked, succeeded, failed, recorded, dropped>>

\* ... ready <- child }
SendChild ==
    /\ ~fatal
    /\ \E u \in BagToSet(units) :
        /\ u.pc = "send"
        /\ Len(ready[u.run]) < ReadyCap
        /\ ready' = [ready EXCEPT ![u.run] = Append(@, Child(u))]
        /\ units' = Replace(u, NextChild(u))
    /\ UNCHANGED <<graph, lastCall, dispatcher, budget, mainpc, inDegree, errors, finished, wg,
                   senders, result, fatal, invoked, succeeded, failed, recorded, dropped>>

\* defer wg.Done()
UnitDone ==
    /\ ~fatal
    /\ \E u \in BagToSet(units) :
        /\ u.pc = "done"
        /\ wg' = [wg EXCEPT ![u.run] = @ - 1]
        /\ units' = units (-) SetToBag({u})
    /\ UNCHANGED <<graph, lastCall, dispatcher, budget, mainpc, inDegree, ready, errors, finished,
                   senders, result, fatal, invoked, succeeded, failed, recorded, dropped>>

\* Two goroutines of one call are at a map operation on inDegree and one of
\* them is the write of inDegree[child]--.
MapRace(u, v) ==
    /\ u.run = v.run
    /\ u.pc = "load"
    /\ v.pc \in {"load", "test"}
    /\ (u = v => CopiesIn(u, units) >= 2)

\* The runtime detects the concurrent map access and throws:
\* "fatal error: concurrent map writes" / "concurrent map read and map write".
MapFault ==
    /\ ~fatal
    /\ \E u \in BagToSet(units), v \in BagToSet(units) : MapRace(u, v)
    /\ fatal' = TRUE
    /\ UNCHANGED <<graph, lastCall, dispatcher, budget, mainpc, inDegree, ready, errors, finished, wg,
                   senders, units, result, invoked, succeeded, failed, recorded, dropped>>

\* select { case <-finished: return nil
SelectFinished ==
    /\ ~fatal
    /\ mainpc = "select"
    /\ finished[cur]
    /\ result' = [result EXCEPT ![cur] = "nil"]
    /\ mainpc' = "idle"
    /\ UNCHANGED <<graph, lastCall, dispatcher, budget, inDegree, ready, errors, finished, wg, senders,
                   units, fatal, invoked, succeeded, failed, recorded, dropped>>

\*          case err := <-errors: return err }
SelectError ==
    /\ ~fatal
    /\ mainpc = "select"
    /\ errors[cur] # <<>>
    /\ result' = [result EXCEPT ![cur] = Head(errors[cur])]
    /\ errors' = [errors EXCEPT ![cur] = Tail(@)]
    /\ mainpc' = "idle"
    /\ UNCHANGED <<graph, lastCall, dispatcher, budget, inDegree, ready, finished, wg, senders,
                   units, fatal, invoked, succeeded, failed, recorded, dropped>>

ExecNext ==
    \/ ExecuteCall
    \/ SenderSend
    \/ WaiterClose
    \/ Dispatch
    \/ TaskStart
    \/ TaskReturn
    \/ ReportError
    \/ DecLoad
    \/ DecStore
    \/ TestZero
    \/ SendChild
    \/ UnitDone
    \/ MapFault
    \/ SelectFinished
    \/ SelectError

SpecExec == ExecInit /\ [][ExecNext]_vars

\* ---------------------------------------------------- graph vocabulary

ChildSet(g, n) == Range(g.nodes[n].children)

RECURSIVE ReachedFrom(_, _)
\* The least set that holds S and the children of its members.
ReachedFrom(g, S) ==
    LET T == S \cup UNION {ChildSet(g, n) : n \in S}
    IN  IF T = S THEN S ELSE ReachedFrom(g, T)

\* The nodes reached from n along one or more children edges.
Descendants(g, n) == ReachedFrom(g, ChildSet(g, n))

Acyclic(g) == \A n \in Registered(g) : n \notin Descendants(g, n)

\* a is an ancestor of n in the graph being executed.
Ancestor(a, n) == n \in Descendants(graph, a)

HasParallelEdges(g) ==
    \E n \in Registered(g) : Len(g.nodes[n].children) > Cardinality(ChildSet(g, n))

UnitsOf(r) == {u \in BagToSet(units) : u.run = r}

Returned(r) == result[r] # "pending"

ReturnedError(r) == result[r] \notin {"pending", "nil"}

\* Nothing of Execute call r is queued or running any more.
Quiescent(r) == senders[r] = {} /\ ready[r] = <<>> /\ UnitsOf(r) = {}

\* ---------------------------------------------------------------- claims

\* C1: in every run, a node whose task has started has all of its parents'
\* tasks completed successfully in that run.
C1_StartsAfterParents ==
    \A r \in Runs : \A n \in Nodes :
        invoked[r][n] > 0 => \A p \in Range(Parents(n)) : succeeded[r][p] > 0

\* C2: within one call of Execute every node's task is invoked at most once.
C2_InvokedAtMostOnce ==
    \A r \in Runs : \A n \in Nodes : invoked[r][n] <= 1

\* C3: if no task fails, a returned Execute has returned nil and every node
\* of the graph has had its task executed in that run.
C3_NilMeansAllExecuted ==
    \A r \in Runs :
        (Returned(r) /\ \A n \in Nodes : ~TaskFails(n))
            => (result[r] = "nil" /\ \A n \in Nodes : succeeded[r][n] > 0)

\* C4: Execute never returns nil for a run in which a task failed.
C4_FailureMeansError ==
    \A r \in Runs : result[r] = "nil" => \A n \in Nodes : failed[r][n] = 0

\* C5: no two goroutines of a run are at the same time inside the
\* decrement-and-test of the in-degree counter of the same child (between the
\* read of inDegree[child]-- and the comparison with zero).
C5_InDegreeExclusive ==
    \A u \in BagToSet(units), v \in BagToSet(units) :
        (/\ u.run = v.run
         /\ u.pc \in {"store", "test"}
         /\ v.pc \in {"store", "test"}
         /\ Child(u) = Child(v))
            => (u = v /\ CopiesIn(u, units) = 1)

\* C6: a node that has a failed node as an ancestor is never dispatched and
\* its task is never invoked in that run.
C6_FailedAncestorBlocks ==
    \A r \in Runs : \A a \in Nodes : \A n \in Nodes :
        (failed[r][a] > 0 /\ Ancestor(a, n))
            => (/\ invoked[r][n] = 0
                /\ n \notin Range(ready[r])
                /\ \A u \in UnitsOf(r) : u.n # n)

\* C7: when the run has come to rest (after Execute returned, nothing queued
\* or running and the runtime alive), every node without a failing ancestor
\* has had its task run to completion.
C7_IndependentNodesComplete ==
    \A r \in Runs :
        (Returned(r) /\ Quiescent(r) /\ ~fatal)
            => \A n \in Nodes :
                (\A a \in Nodes : Ancestor(a, n) => ~TaskFails(a))
                    => succeeded[r][n] + failed[r][n] > 0

\* C8: an error returned by Execute names a node whose task failed in this
\* run, and is the first failure that entered the errors channel.
C8_FirstErrorReturned ==
    \A r \in Runs :
        ReturnedError(r)
            => (/\ recorded[r] # <<>>
                /\ result[r] = recorded[r][1]
                /\ failed[r][result[r]] > 0)

\* C8 witness: an error was returned while another failure of the same run
\* was dropped.
C8_Witness ==
    \E r \in Runs : ReturnedError(r) /\ dropped[r] # {} /\ result[r] \notin dropped[r]

\* C9: the children edges never form a cycle (nor a self-loop).
C9_Acyclic == Acyclic(graph)

\* C9 witness: a Precede with registered names was rejected for closing a
\* cycle over two existing edges.
C9_Witness ==
    lastCall.op = "Precede" /\ lastCall.err = ErrCycle /\ NumEdges(graph) >= 2

\* The edge from -> to would close a cycle over the existing children edges.
WouldCycle(g, from, to) == from = to \/ from \in Descendants(g, to)

\* C10: in every reachable graph, for all registered from and to whose edge
\* from -> to would create a cycle and every iteration order of hasCycle,
\* Precede(from, to) and Succeed(to, from) return the cycle error and a graph
\* equal to the one before the call (children and parents of every node,
\* element by element).
C10_CycleLeavesGraph ==
    \A from \in Registered(graph), to \in Registered(graph) :
        WouldCycle(graph, from, to)
            => \A order \in Orders(Registered(graph)) :
                /\ Precede(graph, from, to, order) = [graph |-> graph, err |-> ErrCycle]
                /\ Succeed(graph, to, from, order) = [graph |-> graph, err |-> ErrCycle]

\* C10 witness: Succeed returned the cycle error on a graph with parallel
\* edges between one pair of nodes.
C10_Witness ==
    lastCall.op = "Succeed" /\ lastCall.err = ErrCycle /\ HasParallelEdges(graph)

\* A name that no Add of the model ever registers.
UnknownName == "Z"

\* The graph g with the edge from -> to appended to both slices.
WithEdge(g, from, to) == AppendParent(AppendChild(g, from, to), from, to)

\* The number of entries of the sequence s equal to x.
Count(s, x) == Cardinality({i \in 1..Len(s) : s[i] = x})

\* C11: in every reachable graph, for all names a and b that are not both
\* registered and every iteration order, Precede(a, b) and Succeed(a, b)
\* return the node-not-found error and leave the graph (the node set and every
\* node's children and parents) as it was.
C11_MissingNodeRejected ==
    \A a \in Names \cup {UnknownName}, b \in Names \cup {UnknownName} :
        (a \notin Registered(graph) \/ b \notin Registered(graph))
            => \A order \in Orders(Registered(graph)) :
                /\ Precede(graph, a, b, order) = [graph |-> graph, err |-> ErrNodeNotFound]
                /\ Succeed(graph, a, b, order) = [graph |-> graph, err |-> ErrNodeNotFound]

\* C11 witness: a Precede or Succeed on a graph that already has an edge was
\* rejected because a name was missing.
C11_Witness ==
    /\ lastCall.op \in {"Precede", "Succeed"}
    /\ lastCall.err = ErrNodeNotFound
    /\ NumEdges(graph) >= 1

\* C12: in every reachable graph and for all names x and y, Succeed(x, y) and
\* Precede(y, x) return the same error and the same graph; when the call is
\* accepted the new edge is y -> x: x is appended to the children of y and y
\* to the parents of x, and nothing else changes.
C12_SucceedIsReversedPrecede ==
    \A x \in Names \cup {UnknownName}, y \in Names \cup {UnknownName} :
        \A order \in Orders(Registered(graph)) :
            LET s == Succeed(graph, x, y, order) IN
            /\ s = Precede(graph, y, x, order)
            /\ s.err = ErrNil => s.graph = WithEdge(graph, y, x)
            /\ s.err # ErrNil => s.graph = graph

\* C12 witness: an accepted Succeed has added an edge to a graph with edges.
C12_Witness ==
    lastCall.op = "Succeed" /\ lastCall.err = ErrNil /\ NumEdges(graph) >= 2

\* C13: in every reachable graph, Add with a registered name returns the graph
\* as it is (operation, children and parents of that node included); Add with
\* a new name registers a node with that operation and no children or parents
\* and leaves every node that existed as it was.
C13_AddKeepsExisting ==
    \A name \in Names \cup {UnknownName}, task \in TaskFuncs :
        LET g2 == Add(graph, name, task) IN
        IF name \in Registered(graph)
        THEN g2 = graph
        ELSE /\ Registered(g2) = Registered(graph) \cup {name}
             /\ g2.nodes[name] = NewNode(name, task)
             /\ \A n \in Registered(graph) : g2.nodes[n] = graph.nodes[n]

\* C13 witness: Add was the last call on a graph where every name is
\* registered and has an edge, so the name it was given was registered.
C13_Witness ==
    /\ lastCall.op = "Add"
    /\ Registered(graph) = Names
    /\ \A n \in Names : graph.nodes[n].children # <<>> \/ graph.nodes[n].parents # <<>>

\* C14: in every reachable graph, each node's parents holds exactly the nodes
\* that list it in their children, each as often as it is listed, so the
\* length of parents is the number of incoming children entries.
C14_ParentsMirrorChildren ==
    \A n \in Registered(graph) :
        /\ \A p \in Registered(graph) :
              Count(graph.nodes[n].parents, p) = Count(graph.nodes[p].children, n)
        /\ Range(graph.nodes[n].parents) \subseteq Registered(graph)
        /\ Len(graph.nodes[n].parents) = parentCounts(graph, n)

\* C14 witness: NewExecutor has rebuilt the parents of a graph that has a
\* repeated edge and a node with two different parents.
C14_Witness ==
    /\ lastCall.op = "NewExecutor"
    /\ HasParallelEdges(graph)
    /\ \E n \in Registered(graph) : Cardinality(Range(graph.nodes[n].parents)) >= 2

\* C18: in every reachable graph, for all registered from and to and every
\* iteration order, Precede(from, to) returns the cycle error exactly when
\* from = to or from is reachable from to over the existing children edges;
\* every other edge (a shortcut beside a longer path, a repeated edge) is
\* accepted and kept.
C18_CycleIffReachable ==
    \A from \in Registered(graph), to \in Registered(graph) :
        \A order \in Orders(Registered(graph)) :
            LET r == Precede(graph, from, to, order) IN
            /\ r.err = ErrCycle <=> WouldCycle(graph, from, to)
            /\ ~WouldCycle(graph, from, to)
                  => r = [graph |-> WithEdge(graph, from, to), err |-> ErrNil]

\* C18 witness: Precede accepted the shortcut a -> c beside the path
\* a -> b -> c.
C18_Witness ==
    /\ lastCall.op = "Precede"
    /\ lastCall.err = ErrNil
    /\ \E a \in Registered(graph), b \in Registered(graph), c \in Registered(graph) :
          /\ graph.nodes[a].children = <<b, c>>
          /\ graph.nodes[b].children = <<c>>

RECURSIVE Copies(_)
\* The number of goroutines in the set S of unit records, copies counted.
Copies(S) ==
    IF S = {} THEN 0
    ELSE LET u == CHOOSE x \in S : TRUE IN CopiesIn(u, units) + Copies(S \ {u})

\* What the WaitGroup of call r stands for: the sending goroutines of the
\* initial loop, the nodes queued on ready, the units alive, and the children
\* a unit has added and not yet sent.
Pending(r) ==
    Cardinality(senders[r]) + Len(ready[r]) + Copies(UnitsOf(r))
        + Copies({u \in UnitsOf(r) : u.pc = "send"})

\* C20: the WaitGroup counter of a call equals the number of units queued or
\* alive plus the children added and not yet sent, so it is never zero while
\* a unit is queued on ready or running; finished is closed only when nothing
\* of the call is queued or in flight, and then the counter is zero; when
\* Execute has returned nil no task of the run is running or waiting.
C20_WaitGroupCoversUnits ==
    \A r \in Runs :
        /\ wg[r] = Pending(r)
        /\ wg[r] = 0 => Quiescent(r)
        /\ finished[r] => (wg[r] = 0 /\ Quiescent(r))
        /\ result[r] = "nil" => (finished[r] /\ Quiescent(r))

\* C20 witness: Execute returned nil after a node with two parents was
\* dispatched by a unit's child loop and ran.
C20_Witness ==
    \E r \in Runs :
        /\ result[r] = "nil"
        /\ \E n \in Nodes : Len(Parents(n)) >= 2 /\ invoked[r][n] >= 1

\* The graph of the README: Precede(A, B), Precede(A, C), Succeed(D, B),
\* Succeed(D, C).
ReadmeGraph ==
    /\ Nodes = {"A", "B", "C", "D"}
    /\ Children("A") = <<"B", "C">>
    /\ Children("B") = <<"D">>
    /\ Children("C") = <<"D">>
    /\ Children("D") = <<>>

\* Node n of call r is queued on ready, held by a unit, or has been invoked.
Dispatched(r, n) ==
    \/ n \in Range(ready[r])
    \/ \E u \in UnitsOf(r) : u.n = n
    \/ invoked[r][n] > 0

Incomparable(n, m) == n # m /\ ~Ancestor(n, m) /\ ~Ancestor(m, n)

\* C16: a node received from ready gets a goroutine of its own and starts its
\* task without waiting for any running unit: while the runtime is alive, the
\* dispatcher can take the head of a non-empty ready queue and every unit that
\* has not started its task can start it, whatever the other units are doing.
\* So of two units waiting to start either can start first, and both run at
\* the same time (the witness).
C16_StartsWithoutWaiting ==
    ~fatal =>
        \A r \in Runs :
            /\ ready[r] # <<>> => ENABLED DispatchOf(r)
            /\ \A u \in UnitsOf(r) : u.pc = "start" => ENABLED TaskStartOf(u)

\* C16 witness: on the README graph the tasks of B and C, neither an
\* ancestor of the other, are running at the same time.
C16_Witness ==
    /\ ReadmeGraph
    /\ Incomparable("B", "C")
    /\ \E r \in Runs : \E u \in UnitsOf(r), v \in UnitsOf(r) :
          /\ u.n = "B" /\ u.pc = "running"
          /\ v.n = "C" /\ v.pc = "running"

\* C19: a call of Execute that has not returned is never stuck: some step of
\* the call (a goroutine's step or the caller's select) can be taken.  Every
\* step moves a goroutine forward and no step is ever undone, so under fair
\* scheduling this is what "every call eventually returns" needs.
C19_PendingCallCanStep ==
    mainpc = "select" => ENABLED ExecNext

\* ------------------------------------------------------ repeated Execute

\* The number of Execute calls made on one Executor.
MaxCalls == 2

\* The programs executed repeatedly, each with the nodes whose task fails: the
\* five-node graph, the join A -> C <- B (no failure, a failing parent, a
\* failing join node), two independent nodes of which one or both fail (the
\* call returns the error while the other unit is in flight), and the empty
\* graph.
RerunCases ==
    { [prog |-> [nodes |-> <<"A", "B", "C", "D", "E">>,
                 calls |-> << <<"P", "A", "C">>, <<"P", "B", "C">>,
                              <<"P", "C", "E">>, <<"P", "D", "E">> >>],
       fails |-> {}],
      [prog |-> [nodes |-> <<"A", "B">>, calls |-> <<>>], fails |-> {"A"}],
      [prog |-> [nodes |-> <<"A", "B">>, calls |-> <<>>], fails |-> {"A", "B"}],
      [prog |-> [nodes |-> <<>>, calls |-> <<>>], fails |-> {}] }
    \cup
    { [prog |-> [nodes |-> <<"A", "B", "C">>,
                 calls |-> << <<"P", "A", "C">>, <<"S", "C", "B">> >>],
       fails |-> f] : f \in {{}, {"A"}, {"C"}} }

\* executor := NewExecutor(tasks); for i := 0; i < MaxCalls; i++ { executor.Execute() }
RerunInit ==
    /\ \E c \in RerunCases : \E order \in Orders(Range(c.prog.nodes)) :
            graph = Built(c.prog, c.fails, order)
    /\ lastCall = [op |-> "NewExecutor", err |-> ErrNil]
    /\ budget = MaxCalls
    /\ NoRuns

SpecRerun == RerunInit /\ [][ExecNext]_vars

\* C15: every call of Execute after the first honours the dependency order
\* on its own: a node whose task has started in that call has all of its
\* parents' tasks completed successfully in that same call.
C15_LaterCallHonoursOrder ==
    \A r \in Runs \ {1} : \A n \in Nodes :
        invoked[r][n] > 0 => \A p \in Range(Parents(n)) : succeeded[r][p] > 0

\* The programs whose repeated Execute is followed to its rest: the join
\* A -> C <- B without failure and with a failing parent, two independent
\* nodes of which one fails, and the empty graph.
LeakCases ==
    { [prog |-> [nodes |-> <<"A", "B", "C">>,
                 calls |-> << <<"P", "A", "C">>, <<"S", "C", "B">> >>],
       fails |-> f] : f \in {{}, {"A"}} }
    \cup
    { [prog |-> [nodes |-> <<"A", "B">>, calls |-> <<>>], fails |-> {"A"}],
      [prog |-> [nodes |-> <<>>, calls |-> <<>>], fails |-> {}] }

LeakInit ==
    /\ \E c \in LeakCases : \E order \in Orders(Range(c.prog.nodes)) :
            graph = Built(c.prog, c.fails, order)
    /\ lastCall = [op |-> "NewExecutor", err |-> ErrNil]
    /\ budget = MaxCalls
    /\ NoRuns

SpecLeak == LeakInit /\ [][ExecNext]_vars

\* C21: while the process is alive, the ready channel of every Execute call
\* made so far is open and the call's dispatcher goroutine is still in its
\* range loop; once the call has returned and nothing of it is queued or
\* running, that goroutine has no step to take: it is blocked receiving from
\* ready.  So every call leaves one goroutine behind.
C21_DispatcherNeverExits ==
    ~fatal =>
        \A r \in Runs :
            /\ ~ReadyClosed(r)
            /\ dispatcher[r] = "range"
            /\ (Returned(r) /\ Quiescent(r)) => (ready[r] = <<>> /\ ~ENABLED DispatchOf(r))

\* C21 witness: two calls of Execute have returned, every dispatched task of
\* both has finished, and the dispatcher goroutines of both are still there.
C21_Witness ==
    /\ ~fatal
    /\ Len(result) = MaxCalls
    /\ \A r \in Runs : Returned(r) /\ Quiescent(r) /\ dispatcher[r] = "range"
    /\ \E r \in Runs : \E n \in Nodes : invoked[r][n] > 0

==========================================================================
